---- MODULE Spec2Model ----
(***************************************************************************)
(* Model of src/main.py: a flat "file combiner" that moves every file      *)
(* under a source tree into one destination directory with a thread pool,  *)
(* renaming on name collisions.                                            *)
(*                                                                         *)
(* The filesystem is modelled as                                           *)
(*   srcFiles  - the regular files of the source tree, in os.walk order    *)
(*   destFiles - the entries of the destination directory, name -> content *)
(* A file name is a sequence of one-character strings, so that Path.stem,  *)
(* Path.suffix and the f-string of line 19 are computed, not assumed.      *)
(* A move fails when its source file has disappeared since the walk.       *)
(***************************************************************************)
EXTENDS Integers, Sequences, FiniteSets, TLC

\* ------------------------------------------------------------------ bounds
MaxFiles == 3
MaxWorkers == 2
MaxBatch == 2
MaxProbe == 10

\* ------------------------------------------------------ names and paths
A_TXT == <<"a", ".", "t", "x", "t">>
B_TXT == <<"b", ".", "t", "x", "t">>
FileNames == {A_TXT, B_TXT}

Digits == <<"0", "1", "2", "3", "4", "5", "6", "7", "8", "9">>

\* str(i) as used by the f-string of line 19
RECURSIVE Str(_)
Str(i) == IF i < 10 THEN <<Digits[i + 1]>>
          ELSE Str(i \div 10) \o <<Digits[(i % 10) + 1]>>

\* name.rfind('.'): the greatest index (1-based) holding a dot, 0 when none
RFindDot(name) ==
    LET dots == {k \in 1..Len(name) : name[k] = "."}
    IN IF dots = {} THEN 0 ELSE CHOOSE k \in dots : \A j \in dots : j <= k

\* pathlib: a final dot-suffix exists when the last dot is neither the
\* first nor the last character of the name
HasSuffix(name) == RFindDot(name) > 1 /\ RFindDot(name) < Len(name)

\* dest.stem (line 15)
Stem(name) == IF HasSuffix(name) THEN SubSeq(name, 1, RFindDot(name) - 1)
              ELSE name

\* dest.suffix (line 16)
Suffix(name) == IF HasSuffix(name) THEN SubSeq(name, RFindDot(name), Len(name))
                ELSE <<>>

\* f"{stem} ({i}){suffix}" (line 19)
Candidate(name, i) ==
    Stem(name) \o <<" ", "(">> \o Str(i) \o <<")">> \o Suffix(name)

\* variant: the existence test never sees the entry
ExistsNever(d, name) == FALSE

\* path.exists() against the destination directory (lines 14 and 20)
Exists(d, name) == name \in DOMAIN d

\* content of a file that started in the source tree / in the destination
SrcContent(dir, name) == [origin |-> "src", dir |-> dir, name |-> name]
DestContent(name) == [origin |-> "dest", dir |-> 0, name |-> name]

VARIABLES
    sourceExists,   \* source.exists()
    srcFiles,       \* files of the source tree in walk order: [dir, name, content]
    destExists,     \* the destination directory exists
    destFiles,      \* destination directory: name -> content
    max_workers, batch_size, dry_run,   \* arguments of main()
    pc,             \* position of main()
    all_files,      \* result of gather_files: sequence of [dir, name]
    idx,            \* loop variable i of line 60 (1-based position in all_files)
    futures,        \* the list futures of main(): task ids
    queue,          \* the executor's FIFO work queue
    status,         \* per task: none, queued, check, probe, move, done, failed
    probe,          \* per task: local i of move_file
    target,         \* per task: local dest of move_file (a name in dest_dir)
    pool,           \* none, open, shutdown
    exc,            \* task whose exception propagates out of main(), 0 if none
    output          \* lines printed

vars == <<sourceExists, srcFiles, destExists, destFiles, max_workers,
          batch_size, dry_run, pc, all_files, idx, futures, queue,
          status, probe, target, pool, exc, output>>

fsVars == <<sourceExists, srcFiles, destExists, destFiles>>
argVars == <<max_workers, batch_size, dry_run>>
taskVars == <<queue, status, probe, target>>

Tasks == 1..MaxFiles

Range(s) == {s[k] : k \in 1..Len(s)}

\* ------------------------------------------------------------ initial state
\* source trees: files of one directory are contiguous (os.walk), directory
\* numbers are used in order, paths are pairwise distinct
RECURSIVE Trees(_)
Trees(n) ==
    IF n = 0 THEN {<<>>}
    ELSE LET shorter == Trees(n - 1)
         IN shorter \cup
            {Append(s, [dir |-> d, name |-> nm, content |-> SrcContent(d, nm)]) :
               s \in {t \in shorter : Len(t) = n - 1},
               d \in 1..n, nm \in FileNames}

WellFormedTree(s) ==
    /\ \A k \in 1..Len(s) :
          s[k].dir \in {(IF k = 1 THEN 1 ELSE s[k - 1].dir),
                        (IF k = 1 THEN 1 ELSE s[k - 1].dir + 1)}
    /\ \A j, k \in 1..Len(s) :
          j # k => <<s[j].dir, s[j].name>> # <<s[k].dir, s[k].name>>

SourceTrees == {s \in Trees(MaxFiles) : WellFormedTree(s)}

\* destination directories the run may start from
DestDirs ==
    { <<>>,
      A_TXT :> DestContent(A_TXT),
      Candidate(A_TXT, 1) :> DestContent(Candidate(A_TXT, 1)),
      (A_TXT :> DestContent(A_TXT))
         @@ (Candidate(A_TXT, 1) :> DestContent(Candidate(A_TXT, 1))) }

Init ==
    /\ sourceExists \in BOOLEAN
    /\ srcFiles \in (IF sourceExists THEN SourceTrees ELSE {<<>>})
    /\ destExists \in BOOLEAN
    /\ destFiles \in (IF destExists THEN DestDirs ELSE {<<>>})
    /\ max_workers \in 1..MaxWorkers
    /\ batch_size \in 1..MaxBatch
    /\ dry_run \in BOOLEAN
    /\ pc = "start"
    /\ all_files = <<>>
    /\ idx = 1
    /\ futures = <<>>
    /\ queue = <<>>
    /\ status = [t \in Tasks |-> "none"]
    /\ probe = [t \in Tasks |-> 0]
    /\ target = [t \in Tasks |-> <<>>]
    /\ pool = "none"
    /\ exc = 0
    /\ output = <<>>

\* ------------------------------------------------------------------- main()
\* variant: the existence test of line 49 is skipped
AfterSourceCheckSkipped(exists) == "mkdir"

\* lines 49-51
AfterSourceCheck(exists) == IF exists THEN "mkdir" ELSE "returned"

CheckSource ==
    /\ pc = "start"
    /\ pc' = AfterSourceCheck(sourceExists)
    /\ output' = IF sourceExists THEN output ELSE Append(output, <<"not_found">>)
    /\ UNCHANGED <<fsVars, argVars, taskVars, all_files, idx, futures,
                   pool, exc>>

\* line 52: dest.mkdir(parents=True, exist_ok=True)
MkDir ==
    /\ pc = "mkdir"
    /\ destExists' = TRUE
    /\ pc' = "gather"
    /\ UNCHANGED <<sourceExists, srcFiles, destFiles, argVars, taskVars,
                   all_files, idx, futures, pool, exc, output>>

\* lines 28-33
gather_files(tree) == [k \in 1..Len(tree) |-> [dir |-> tree[k].dir, name |-> tree[k].name]]

\* lines 55-56
Gather ==
    /\ pc = "gather"
    /\ all_files' = gather_files(srcFiles)
    /\ output' = Append(output, <<"found", Len(all_files')>>)
    /\ pc' = "pool"
    /\ UNCHANGED <<fsVars, argVars, taskVars, idx, futures, pool, exc>>

\* line 58: ThreadPoolExecutor(max_workers=max_workers).__enter__
OpenPool ==
    /\ pc = "pool"
    /\ pool' = "open"
    /\ pc' = "loop"
    /\ UNCHANGED <<fsVars, argVars, taskVars, all_files, idx, futures,
                   exc, output>>

\* variant: off-by-one in the batch test
BatchFullLate(futs) == Len(futs) > batch_size

\* line 67
BatchFull(futs) == Len(futs) >= batch_size

\* variant: the line names the first file instead of the current one
WouldMoveFirst(f) == <<"would_move", all_files[1], "dest">>

\* line 62: the report line for file f
WouldMove(f) == <<"would_move", f, "dest">>

\* lines 60-63: one iteration in dry-run mode
DryRunStep ==
    /\ pc = "loop"
    /\ idx <= Len(all_files)
    /\ dry_run
    /\ output' = Append(output, WouldMove(all_files[idx]))
    /\ idx' = idx + 1
    /\ UNCHANGED <<fsVars, argVars, taskVars, pc, all_files, futures,
                   pool, exc>>

\* lines 60-67: one iteration that submits a task
Submit ==
    /\ pc = "loop"
    /\ idx <= Len(all_files)
    /\ ~dry_run
    /\ futures' = Append(futures, idx)
    /\ queue' = Append(queue, idx)
    /\ status' = [status EXCEPT ![idx] = "queued"]
    /\ idx' = idx + 1
    /\ pc' = IF BatchFull(futures') THEN "drain" ELSE "loop"
    /\ UNCHANGED <<fsVars, argVars, probe, target, all_files, pool,
                   exc, output>>

\* the for loop of line 60 is exhausted
LoopEnd ==
    /\ pc = "loop"
    /\ idx > Len(all_files)
    /\ pc' = "final"
    /\ UNCHANGED <<fsVars, argVars, taskVars, all_files, idx, futures,
                   pool, exc, output>>

Terminal(t) == status[t] \in {"done", "failed"}

\* lines 68-69 and 73-74: as_completed yields a failed future and
\* fut.result() re-raises the task's exception out of the loop
AwaitRaise ==
    /\ pc \in {"drain", "final"}
    /\ \E t \in Range(futures) :
          /\ status[t] = "failed"
          /\ exc' = t
    /\ pc' = "exit"
    /\ UNCHANGED <<fsVars, argVars, taskVars, all_files, idx, futures,
                   pool, output>>

\* variant: the wait ends with the first completed future
BatchDrainedFirst(futs) == futs = <<>> \/ \E t \in Range(futs) : status[t] = "done"

\* the as_completed loop ends normally: every future of the list was
\* yielded and its result() returned
BatchDrained(futs) == \A t \in Range(futs) : status[t] = "done"

\* line 70: futures = []
DrainEnd ==
    /\ pc = "drain"
    /\ BatchDrained(futures)
    /\ futures' = <<>>
    /\ pc' = "loop"
    /\ UNCHANGED <<fsVars, argVars, taskVars, all_files, idx, pool, exc, output>>

\* the loop of lines 73-74 ends
FinalEnd ==
    /\ pc = "final"
    /\ BatchDrained(futures)
    /\ pc' = "exit"
    /\ UNCHANGED <<fsVars, argVars, taskVars, all_files, idx, futures,
                   pool, exc, output>>

Submitted(t) == status[t] # "none"

\* variant: shutdown(wait=False)
ShutdownNoWait == TRUE

\* variant: shutdown waits for the running work items only
ShutdownRunningOnly == \A t \in Tasks : status[t] \notin {"check", "probe", "move"}

\* executor.shutdown(wait=True) of the with statement returns once every
\* submitted work item has run
ShutdownReturns == \A t \in Tasks : Submitted(t) => Terminal(t)

\* with-block exit without exception, then line 76
ExitDone ==
    /\ pc = "exit"
    /\ exc = 0
    /\ ShutdownReturns
    /\ pool' = "shutdown"
    /\ output' = Append(output, <<"done">>)
    /\ pc' = "done"
    /\ UNCHANGED <<fsVars, argVars, taskVars, all_files, idx, futures,
                   exc>>

\* with-block exit while an exception propagates; line 76 is not reached
ExitRaise ==
    /\ pc = "exit"
    /\ exc # 0
    /\ ShutdownReturns
    /\ pool' = "shutdown"
    /\ pc' = "raised"
    /\ UNCHANGED <<fsVars, argVars, taskVars, all_files, idx, futures,
                   exc, output>>

\* ------------------------------------------------------ the worker threads
Executing == {t \in Tasks : status[t] \in {"check", "probe", "move"}}

\* variant: a thread is spawned for every work item
WorkerUnbounded(running) == TRUE

\* variant: one worker thread too few
WorkerOneShort(running) == Cardinality(running) < max_workers - 1

\* a worker thread is free (or can still be spawned)
WorkerAvailable(running) == Cardinality(running) < max_workers

\* a worker takes the head of the queue and enters move_file (line 11)
Start ==
    /\ queue # <<>>
    /\ WorkerAvailable(Executing)
    /\ LET t == Head(queue)
       IN /\ queue' = Tail(queue)
          /\ status' = [status EXCEPT ![t] = "check"]
          /\ target' = [target EXCEPT ![t] = all_files[t].name]
    /\ UNCHANGED <<fsVars, argVars, pc, all_files, idx, futures,
                   probe, pool, exc, output>>

\* lines 14-17
Check(t) ==
    /\ status[t] = "check"
    /\ IF Exists(destFiles, target[t])
       THEN /\ status' = [status EXCEPT ![t] = "probe"]
            /\ probe' = [probe EXCEPT ![t] = 1]
       ELSE /\ status' = [status EXCEPT ![t] = "move"]
            /\ UNCHANGED probe
    /\ UNCHANGED <<fsVars, argVars, pc, all_files, idx, futures,
                   queue, target, pool, exc, output>>

\* lines 18-23: one iteration of the while loop
Probe(t) ==
    /\ status[t] = "probe"
    /\ LET new_dest == Candidate(target[t], probe[t])
       IN IF ~Exists(destFiles, new_dest)
          THEN /\ target' = [target EXCEPT ![t] = new_dest]
               /\ status' = [status EXCEPT ![t] = "move"]
               /\ UNCHANGED probe
          ELSE /\ probe' = [probe EXCEPT ![t] = probe[t] + 1]
               /\ UNCHANGED <<status, target>>
    /\ UNCHANGED <<fsVars, argVars, pc, all_files, idx, futures,
                   queue, pool, exc, output>>

SrcIndex(tree, p) == {k \in 1..Len(tree) : tree[k].dir = p.dir /\ tree[k].name = p.name}

\* variant: the file is copied and the original kept
RemoveSrcKept(tree, p) == tree

\* the source tree once the file at path p is gone
RemoveSrc(tree, p) == SelectSeq(tree, LAMBDA f : ~(f.dir = p.dir /\ f.name = p.name))

\* the destination directory once a file is renamed onto name
PutDest(d, name, content) == (name :> content) @@ d

\* line 25: shutil.move succeeds
Move(t) ==
    /\ status[t] = "move"
    /\ SrcIndex(srcFiles, all_files[t]) # {}
    /\ LET k == CHOOSE j \in SrcIndex(srcFiles, all_files[t]) : TRUE
       IN destFiles' = PutDest(destFiles, target[t], srcFiles[k].content)
    /\ srcFiles' = RemoveSrc(srcFiles, all_files[t])
    /\ status' = [status EXCEPT ![t] = "done"]
    /\ UNCHANGED <<sourceExists, destExists, argVars, pc, all_files, idx,
                   futures, queue, probe, target, pool, exc, output>>

\* line 25: the source file disappeared before shutil.move ran, which
\* raises FileNotFoundError; the exception is stored in the task's future
MoveRaise(t) ==
    /\ status[t] = "move"
    /\ srcFiles' = RemoveSrc(srcFiles, all_files[t])
    /\ status' = [status EXCEPT ![t] = "failed"]
    /\ UNCHANGED <<sourceExists, destExists, destFiles, argVars, pc, all_files,
                   idx, futures, queue, probe, target, pool, exc, output>>

Next ==
    \/ CheckSource
    \/ MkDir
    \/ Gather
    \/ OpenPool
    \/ DryRunStep
    \/ Submit
    \/ LoopEnd
    \/ AwaitRaise
    \/ DrainEnd
    \/ FinalEnd
    \/ ExitDone
    \/ ExitRaise
    \/ Start
    \/ \E t \in Tasks : Check(t)
    \/ \E t \in Tasks : Probe(t)
    \/ \E t \in Tasks : Move(t)
    \/ \E t \in Tasks : MoveRaise(t)

Spec == Init /\ [][Next]_vars

\* scheduling: a thread that can take a step is eventually run, and every
\* filesystem call returns
FairSpec == Spec /\ WF_vars(Next)

\* ------------------------------------------- the collision resolver alone
\* lines 11-23 of move_file run by two workers for the same desired name
\* against a directory that no one changes (no move is performed)
N_A == <<"a">>
DOT_A == <<".", "a">>
A_DOT == <<"a", ".">>
A_B_C == <<"a", ".", "b", ".", "c">>
ResolverNames == {A_TXT, N_A, DOT_A, A_DOT, A_B_C}

\* the counters already taken: 1..k without g (g = 0: no gap)
TakenSets == {(1..k) \ {g} : k \in 0..MaxProbe, g \in 0..MaxProbe}

\* a directory holding the given names
DirOf(names) == [n \in names |-> DestContent(n)]

ResolverDirs(name) ==
    {DirOf(base \cup {Candidate(name, i) : i \in taken} \cup others) :
        base \in {{}, {name}},
        taken \in TakenSets,
        others \in {{}, {Candidate(m, 1) : m \in ResolverNames \ {name}}}}

InitResolver ==
    /\ \E name \in ResolverNames :
          /\ srcFiles = << [dir |-> 1, name |-> name, content |-> SrcContent(1, name)],
                           [dir |-> 2, name |-> name, content |-> SrcContent(2, name)] >>
          /\ destFiles \in ResolverDirs(name)
          /\ target = [t \in Tasks |-> IF t \in {1, 2} THEN name ELSE <<>>]
    /\ sourceExists = TRUE
    /\ destExists = TRUE
    /\ max_workers = 2
    /\ batch_size = 2
    /\ dry_run = FALSE
    /\ pc = "drain"
    /\ all_files = gather_files(srcFiles)
    /\ idx = 3
    /\ futures = <<1, 2>>
    /\ queue = <<>>
    /\ status = [t \in Tasks |-> IF t \in {1, 2} THEN "check" ELSE "none"]
    /\ probe = [t \in Tasks |-> 0]
    /\ pool = "open"
    /\ exc = 0
    /\ output = << <<"found", 2>> >>

NextResolver ==
    \/ \E t \in Tasks : Check(t)
    \/ \E t \in Tasks : Probe(t)

SpecResolver == InitResolver /\ [][NextResolver]_vars

TypeOK ==
    /\ pc \in {"start", "returned", "mkdir", "gather", "pool", "loop", "drain",
               "final", "exit", "done", "raised"}
    /\ pool \in {"none", "open", "shutdown"}
    /\ \A t \in Tasks : status[t] \in {"none", "queued", "check", "probe",
                                        "move", "done", "failed"}

\* ------------------------------------------------------- shared vocabulary
Files == 1..Len(all_files)

Exited == pc \in {"done", "raised"}

NoMoveRaised == \A t \in Tasks : status[t] # "failed"

\* every entry of the destination was put there by this run
DestStartedEmpty == \A n \in DOMAIN destFiles : destFiles[n].origin = "src"

\* names the destination held before the run
DestNamesBefore == {n \in DOMAIN destFiles : destFiles[n].origin = "dest"}

SameNamed == \A j, k \in Files : all_files[j].name = all_files[k].name

DistinctNamed == \A j, k \in Files : j # k => all_files[j].name # all_files[k].name

\* the contiguous batch (0, 1, ...) a gathered file belongs to
BatchOf(k) == (k - 1) \div batch_size

\* submitted and not yet confirmed complete by the scheduler (line 70)
InFlight == Range(futures)

\* ------------------------------------------------------------------ claims

\* C1: N same-named source files moved into an initially empty destination,
\* no move raising, end as exactly N destination files named base,
\* base (1), ..., base (N-1), one per source file, for every worker count,
\* batch size and interleaving.
C1_SameNameAllKept ==
    (pc = "done" /\ ~dry_run /\ Len(all_files) >= 1 /\ SameNamed
       /\ DestStartedEmpty /\ NoMoveRaised)
    => LET base == all_files[1].name
           N == Len(all_files)
       IN /\ DOMAIN destFiles = {base} \cup {Candidate(base, i) : i \in 1..(N - 1)}
          /\ {destFiles[n] : n \in DOMAIN destFiles}
               = {SrcContent(all_files[k].dir, all_files[k].name) : k \in Files}

\* C2: no file of a later batch is submitted before every task of each
\* earlier batch has finished (successfully or by raising).
C2_BatchesInSequence ==
    \A t, u \in Files :
        (BatchOf(t) < BatchOf(u) /\ Submitted(u)) => Terminal(t)

C2_Witness ==
    /\ batch_size >= 2
    /\ max_workers >= 2
    /\ \E u \in Files : BatchOf(u) = 1 /\ status[u] = "check"

\* C3: the number of items in flight never exceeds batch_size.
C3_InFlightBounded ==
    /\ Cardinality(InFlight) <= batch_size
    /\ Len(futures) <= batch_size
    /\ Cardinality({t \in Tasks : Submitted(t) /\ ~Terminal(t)}) <= batch_size

C3_Witness ==
    /\ Cardinality(InFlight) = batch_size
    /\ batch_size >= 2
    /\ Len(all_files) > batch_size
    /\ pc = "drain"

\* C4: the number of move_file calls executing at the same time never
\* exceeds max_workers, whatever batch_size is.
C4_WorkersBounded == Cardinality(Executing) <= max_workers

C4_Witness ==
    /\ batch_size > max_workers
    /\ Cardinality(Executing) = max_workers
    /\ queue # <<>>

\* C5: with dry_run the filesystem is never changed (source tree and
\* destination path stay as they were) and no move task is submitted.
C5_DryRunNoMutation ==
    [][dry_run => (UNCHANGED fsVars /\ \A t \in Tasks : status'[t] = "none")]_vars

\* C6: when the source path does not exist, main() reports it and returns:
\* nothing on the filesystem changes, the destination is not created, no file
\* is walked, no pool is started and no move is attempted.
C6_SourceMissingNoEffect ==
    [][~sourceExists =>
         /\ UNCHANGED fsVars
         /\ pc' \in {"start", "returned"}
         /\ (pc' = "returned" => output' = << <<"not_found">> >>)
         /\ all_files' = <<>>
         /\ pool' = "none"
         /\ \A t \in Tasks : status'[t] = "none"]_vars

C6_Witness ==
    /\ ~sourceExists
    /\ ~destExists
    /\ pc = "returned"
    /\ output = << <<"not_found">> >>

\* C7: when the gathered names are pairwise distinct and none is a name the
\* destination already held, a non-dry run in which no move raises ends with
\* every source file at the destination under its original name and with no
\* regular file left in the source tree.
C7_NoCollisionAllMoved ==
    (pc = "done" /\ ~dry_run /\ DistinctNamed /\ NoMoveRaised
       /\ \A k \in Files : all_files[k].name \notin DestNamesBefore)
    => /\ \A k \in Files :
            /\ Exists(destFiles, all_files[k].name)
            /\ destFiles[all_files[k].name]
                 = SrcContent(all_files[k].dir, all_files[k].name)
       /\ srcFiles = <<>>

C7_Witness ==
    /\ pc = "done" /\ ~dry_run /\ DistinctNamed /\ NoMoveRaised
    /\ Len(all_files) = 2
    /\ max_workers >= 2 /\ batch_size >= 2
    /\ DestNamesBefore = {Candidate(A_TXT, 1)}
    /\ DOMAIN destFiles = {A_TXT, B_TXT, Candidate(A_TXT, 1)}

\* C8: a task that raises does not cancel its siblings: when main() exits
\* with a task's exception, every other submitted task has executed
\* move_file and reached its own terminal state.
C8_SiblingsNotCancelled ==
    (Exited /\ \E t \in Tasks : status[t] = "failed")
    => \A u \in Tasks : Submitted(u) => Terminal(u)

C8_Witness ==
    /\ pc = "raised"
    /\ \E u \in Range(futures) :
          u # exc /\ status[u] = "done" /\ BatchOf(u) = BatchOf(exc)

\* C9: at the end of a non-dry run every gathered file is either moved to
\* the destination or its own failure has been surfaced to the caller.
C9_MovedOrSurfaced ==
    (Exited /\ ~dry_run)
    => \A k \in Files : status[k] = "done" \/ (status[k] = "failed" /\ exc = k)

\* C10: after a task of batch k fails, main() still submits and runs the
\* files of the later batches.
C10_RunContinuesAfterFailure ==
    Exited
    => \A t, u \in Files :
          (status[t] = "failed" /\ BatchOf(t) < BatchOf(u)) => Terminal(u)

\* C11: every non-dry run of main() on an existing source reports
\* completion (prints the done message), also when moves have failed:
\* a run that has left main() has printed it.
C11_DoneReported ==
    (sourceExists /\ ~dry_run /\ Exited) => <<"done">> \in Range(output)

\* C12: names are assigned in walk order under every interleaving: of two
\* gathered files sharing a name, with an initially empty destination, the
\* first seen ends under the unmodified name and the second under the
\* "(1)" name, and the source tree is left with no files.
C12_WalkOrderNames ==
    (pc = "done" /\ ~dry_run /\ DestStartedEmpty /\ NoMoveRaised)
    => /\ \A j, k \in Files :
            (/\ j < k
             /\ all_files[j].name = all_files[k].name
             /\ \A m \in Files \ {j, k} : all_files[m].name # all_files[j].name)
            => /\ Exists(destFiles, all_files[j].name)
               /\ destFiles[all_files[j].name]
                    = SrcContent(all_files[j].dir, all_files[j].name)
               /\ Exists(destFiles, Candidate(all_files[k].name, 1))
               /\ destFiles[Candidate(all_files[k].name, 1)]
                    = SrcContent(all_files[k].dir, all_files[k].name)
       /\ srcFiles = <<>>

\* C13: whenever main() has returned control after creating the pool
\* (normally or with a re-raised exception), the pool is shut down and no
\* submitted task is pending or running; on the source-not-found path no
\* pool was ever created.
C13_PoolShutDownOnExit ==
    /\ Exited => /\ pool = "shutdown"
                 /\ queue = <<>>
                 /\ \A t \in Tasks : status[t] \in {"none", "done", "failed"}
    /\ pc = "returned" => pool = "none"
    /\ pool = "none" => \A t \in Tasks : status[t] = "none"

C13_Witness ==
    /\ pc = "raised"
    /\ pool = "shutdown"
    /\ max_workers = 1
    /\ \E t, u \in Range(futures) : t < u /\ exc = t /\ Terminal(u)

\* "{stem} ({i}){extension}" written out
Formatted(name, i) ==
    Stem(name) \o <<" ", "(">> \o Str(i) \o <<")">> \o Suffix(name)

\* the least counter i >= 1 whose candidate is absent from directory d
LeastFree(d, name) ==
    CHOOSE i \in 1..(Cardinality(DOMAIN d) + 1) :
        /\ Formatted(name, i) \notin DOMAIN d
        /\ \A j \in 1..(i - 1) : Formatted(name, j) \in DOMAIN d

\* C14: the resolver of move_file returns the unmodified name when it is
\* absent and otherwise "{stem} ({i}){extension}" for the least i >= 1 whose
\* candidate is absent; two invocations against an unchanged directory
\* return the same path, and the returned path does not exist.
C14_ResolverLeastFree ==
    /\ \A t \in {1, 2} :
          status[t] = "move"
          => /\ target[t] = (IF all_files[t].name \in DOMAIN destFiles
                             THEN Formatted(all_files[t].name,
                                            LeastFree(destFiles, all_files[t].name))
                             ELSE all_files[t].name)
             /\ target[t] \notin DOMAIN destFiles
    /\ (status[1] = "move" /\ status[2] = "move") => target[1] = target[2]

C14_Witness ==
    /\ status[1] = "move" /\ status[2] = "move"
    /\ all_files[1].name = DOT_A
    /\ target[1] = <<".", "a", " ", "(", "2", ")">>
    /\ <<".", "a", " ", "(", "3", ")">> \in DOMAIN destFiles

\* the "Would move" lines printed so far, in print order
WouldMoveLines == SelectSeq(output, LAMBDA l : l[1] = "would_move")

\* C15: a dry run prints exactly one "Would move" line per gathered file,
\* naming that file's source path and the destination directory, in the
\* order the walker produced the files, none twice and none skipped.
C15_DryRunReport ==
    dry_run
    => /\ \A k \in 1..Len(WouldMoveLines) :
             /\ k <= Len(srcFiles)
             /\ WouldMoveLines[k]
                  = <<"would_move",
                      [dir |-> srcFiles[k].dir, name |-> srcFiles[k].name],
                      "dest">>
       /\ pc = "loop" => Len(WouldMoveLines) = idx - 1
       /\ pc \in {"final", "exit", "done"} => Len(WouldMoveLines) = Len(srcFiles)
       /\ \A t \in Tasks : status[t] = "none"

C15_Witness ==
    /\ dry_run
    /\ pc = "done"
    /\ Len(all_files) = 3
    /\ Len(WouldMoveLines) = 3
    /\ all_files[1].name # all_files[2].name

NoDuplicates(q) == \A j, k \in 1..Len(q) : j # k => q[j] # q[k]

\* C16: in a non-dry run every gathered file is submitted to the pool and
\* executed by a worker exactly once: none twice, none left unsubmitted.
C16_EachSubmittedOnce ==
    /\ NoDuplicates(futures)
    /\ NoDuplicates(queue)
    /\ \A t \in Range(queue) : status[t] = "queued"
    /\ (Exited /\ ~dry_run) => \A k \in Files : Terminal(k)

\* at most one move can execute at a time
OneAtATime == max_workers = 1 \/ batch_size <= 1

\* the name the i-th file seen is expected under
NameInOrder(base, i) == IF i = 1 THEN base ELSE Formatted(base, i - 1)

\* C17: with max_workers = 1 or batch_size <= 1 the moves run one at a
\* time in walk order, so N same-named files moved into an initially empty
\* destination end as N files, the i-th seen under the base name for i = 1
\* and under suffix (i-1) otherwise, each with its own content.
C17_SequentialInOrder ==
    (~dry_run /\ OneAtATime)
    => /\ Cardinality(Executing) <= 1
       /\ \A j, k \in Files :
             (j < k /\ status[k] \notin {"none", "queued"}) => Terminal(j)
       /\ (pc = "done" /\ SameNamed /\ DestStartedEmpty /\ Len(all_files) >= 1)
          => /\ Cardinality(DOMAIN destFiles) = Len(all_files)
             /\ \A i \in Files :
                   /\ Exists(destFiles, NameInOrder(all_files[1].name, i))
                   /\ destFiles[NameInOrder(all_files[1].name, i)]
                        = SrcContent(all_files[i].dir, all_files[i].name)

C17_Witness ==
    /\ pc = "done" /\ ~dry_run
    /\ max_workers = 1 /\ batch_size = 2
    /\ Len(all_files) = 3 /\ SameNamed /\ DestStartedEmpty
    /\ Cardinality(DOMAIN destFiles) = 3
    /\ destFiles[Formatted(A_TXT, 2)] = SrcContent(3, A_TXT)

\* main() has returned control to its caller
Returned == pc \in {"returned", "done", "raised"}

\* C18: under weakly fair scheduling every run of main() terminates: each
\* probe loop of move_file ends and main() exits (done message, re-raised
\* exception or source-not-found return), with no deadlock at a batch
\* barrier, for every batch_size and max_workers >= 1.
C18_Terminates ==
    <>(Returned /\ \A t \in Tasks : status[t] \in {"none", "done", "failed"})

C18_Witness ==
    /\ pc = "done" /\ ~dry_run
    /\ Len(all_files) > batch_size
    /\ max_workers = 1
    /\ \E t \in Tasks : probe[t] = 2 /\ status[t] = "done"
====
